---- MODULE Spec2Model ----
(***************************************************************************)
(* Model of the AllNewsAPI Go client (src/client.go): the two endpoint     *)
(* calls Client.Search and Client.Headlines, from the construction of the  *)
(* query parameters to the classified outcome handed back to the caller.   *)
(*                                                                         *)
(* Text that the code inspects or escapes character by character (option   *)
(* values, the API key, the base URL) is a sequence of one-character       *)
(* strings; text that is only concatenated (the encoded query, the request *)
(* URL, error messages, response bodies) is a string.                      *)
(***************************************************************************)
EXTENDS Integers, Sequences, FiniteSets, TLC

VARIABLES
    client,     \* the Client: apiKey, baseURL, httpClient.Timeout
    threads,    \* the caller goroutines sharing the client
    optsMem,    \* per caller: the SearchOptions value the call was handed (by pointer)
    endpoint,   \* per caller: the method invoked, "search" or "headlines"
    pc,         \* per caller: position of the call
    sent,       \* per caller: the requests handed to httpClient.Do, in order
    net,        \* per caller: what httpClient.Do returned
    bodyOpen,   \* per caller: resp.Body is open
    io,         \* per caller: how often the call read, decoded and closed the body
    outcome     \* per caller: the pair (result, error) returned

vars == <<client, threads, optsMem, endpoint, pc, sent, net, bodyOpen, io, outcome>>

-----------------------------------------------------------------------------
(* Bounds of the model *)

\* longest list given for a list-valued option
MaxListLen == 2

(* Program constants *)

\* http.StatusOK
StatusOK == 200
\* the default httpClient.Timeout, in seconds
DefaultTimeout == 30

-----------------------------------------------------------------------------
(* Text helpers: the library routines the code calls *)

Digit == <<"0", "1", "2", "3", "4", "5", "6", "7", "8", "9">>

\* fmt.Sprintf("%d", n) as characters
RECURSIVE Itoa(_)
Itoa(n) ==
    IF n < 0 THEN <<"-">> \o Itoa(-n)
    ELSE IF n < 10 THEN <<Digit[n + 1]>>
    ELSE Itoa(n \div 10) \o <<Digit[(n % 10) + 1]>>

\* a sequence of characters (or of strings) as one string
RECURSIVE Str(_)
Str(s) == IF s = <<>> THEN "" ELSE Head(s) \o Str(Tail(s))

\* strings.Join(elems, sep) on character sequences
RECURSIVE Join(_, _)
Join(elems, sep) ==
    IF elems = <<>> THEN <<>>
    ELSE IF Len(elems) = 1 THEN elems[1]
    ELSE elems[1] \o sep \o Join(Tail(elems), sep)

\* n in decimal, left-padded with zeros to width w (the layout's 01, 02, 15, 04, 05, 2006)
RECURSIVE Pad(_, _)
Pad(n, w) ==
    LET d == Itoa(n)
    IN  IF Len(d) >= w THEN d ELSE [k \in 1..(w - Len(d)) |-> "0"] \o d

\* the layout element Z07:00: Z for UTC, else the signed offset hh:mm
ZoneSuffix(off) ==
    IF off = 0 THEN <<"Z">>
    ELSE LET a == IF off < 0 THEN -off ELSE off
         IN  <<IF off < 0 THEN "-" ELSE "+">> \o Pad(a \div 60, 2) \o <<":">> \o Pad(a % 60, 2)

\* v.Format(time.RFC3339): "2006-01-02T15:04:05Z07:00"
FormatRFC3339(t) ==
    Pad(t.Y, 4) \o <<"-">> \o Pad(t.M, 2) \o <<"-">> \o Pad(t.D, 2) \o <<"T">>
        \o Pad(t.h, 2) \o <<":">> \o Pad(t.m, 2) \o <<":">> \o Pad(t.s, 2)
        \o ZoneSuffix(t.off)

\* characters url.QueryEscape leaves alone
Unreserved ==
    {"a", "b", "c", "d", "e", "f", "g", "h", "i", "j", "k", "l", "m", "n", "o", "p", "q",
     "r", "s", "t", "u", "v", "w", "x", "y", "z", "A", "B", "C", "D", "K", "S", "T", "Z",
     "0", "1", "2", "3", "4", "5", "6", "7", "8", "9", "-", "_", ".", "~"}

\* url.QueryEscape of one character: space becomes +, reserved characters %XX
EscapeChar(ch) ==
    IF ch \in Unreserved THEN ch
    ELSE CASE ch = " " -> "+"
           [] ch = "," -> "%2C"
           [] ch = ":" -> "%3A"
           [] ch = "+" -> "%2B"
           [] ch = "&" -> "%26"
           [] ch = "=" -> "%3D"
           [] ch = "/" -> "%2F"
           [] ch = "?" -> "%3F"

\* url.QueryEscape
RECURSIVE QueryEscape(_)
QueryEscape(s) == IF s = <<>> THEN "" ELSE EscapeChar(Head(s)) \o QueryEscape(Tail(s))

\* url.Values{}
EmptyValues == [k \in {} |-> <<>>]

\* url.Values.Add
Add(p, k, v) ==
    IF k \in DOMAIN p THEN [p EXCEPT ![k] = Append(@, v)] ELSE p @@ (k :> <<v>>)

\* the keys the code uses, as slices.Sort orders them (byte order)
SortedKeys ==
    <<"apikey", "attributes", "category", "content", "country", "endDate", "format",
      "lang", "max", "page", "publisher", "q", "region", "sortby", "startDate">>

\* key=value for each value of one key, joined with &
RECURSIVE EncodeKey(_, _)
EncodeKey(k, vs) ==
    IF vs = <<>> THEN ""
    ELSE k \o "=" \o QueryEscape(Head(vs))
           \o (IF Len(vs) > 1 THEN "&" \o EncodeKey(k, Tail(vs)) ELSE "")

\* url.Values.Encode: the keys in sorted order, key=escaped value, joined with &
RECURSIVE EncodeFrom(_, _)
EncodeFrom(p, ks) ==
    IF ks = <<>> THEN ""
    ELSE LET rest == EncodeFrom(p, Tail(ks))
         IN  IF Head(ks) \in DOMAIN p
             THEN EncodeKey(Head(ks), p[Head(ks)])
                    \o (IF rest = "" THEN "" ELSE "&" \o rest)
             ELSE rest

Encode(p) == EncodeFrom(p, SortedKeys)

-----------------------------------------------------------------------------
(* Values of the option fields *)

\* a dynamically typed date option: nil, a string, a time.Time, or any other type
NoTime == [Y |-> 1, M |-> 1, D |-> 1, h |-> 0, m |-> 0, s |-> 0, off |-> 0]
DateNil == [kind |-> "nil", str |-> <<>>, tm |-> NoTime]
DateString(v) == [kind |-> "string", str |-> v, tm |-> NoTime]
DateTime(t) == [kind |-> "time", str |-> <<>>, tm |-> t]
\* an int, a *time.Time, ...: whatever the type switch sends to its default case
DateOther(k) == [kind |-> k, str |-> <<>>, tm |-> NoTime]

\* a *bool
BoolNil == [isNil |-> TRUE, v |-> FALSE]
BoolPtr(b) == [isNil |-> FALSE, v |-> b]

\* the zero SearchOptions value
ZeroOptions ==
    [isNil |-> FALSE, Query |-> <<>>, StartDate |-> DateNil, EndDate |-> DateNil,
     Content |-> BoolNil, Lang |-> <<>>, Country |-> <<>>, Region |-> <<>>,
     Category |-> <<>>, Max |-> 0, Attributes |-> <<>>, Page |-> 0, SortBy |-> <<>>,
     Publisher |-> <<>>, Format |-> <<>>]

\* a nil *SearchOptions
NilOptions == [ZeroOptions EXCEPT !.isNil = TRUE]

\* what a block of the parameter construction hands to the next one
Built(p) == [err |-> "", params |-> p]
Failed(msg) == [err |-> msg, params |-> EmptyValues]

-----------------------------------------------------------------------------
(* Client.Search: construction of the query parameters *)

SearchQuery(o, p) == IF o.Query # <<>> THEN Add(p, "q", o.Query) ELSE p

SearchStartDate(o, p) ==
    IF o.StartDate.kind # "nil"
    THEN CASE o.StartDate.kind = "string" -> Built(Add(p, "startDate", o.StartDate.str))
           [] o.StartDate.kind = "time" ->
                Built(Add(p, "startDate", FormatRFC3339(o.StartDate.tm)))
           [] OTHER -> Failed("startDate must be string or time.Time")
    ELSE Built(p)

SearchEndDate(o, p) ==
    IF o.EndDate.kind # "nil"
    THEN CASE o.EndDate.kind = "string" -> Built(Add(p, "endDate", o.EndDate.str))
           [] o.EndDate.kind = "time" ->
                Built(Add(p, "endDate", FormatRFC3339(o.EndDate.tm)))
           [] OTHER -> Failed("endDate must be string or time.Time")
    ELSE Built(p)

SearchContent(o, p) ==
    IF ~o.Content.isNil
    THEN IF o.Content.v THEN Add(p, "content", <<"t", "r", "u", "e">>)
         ELSE Add(p, "content", <<"f", "a", "l", "s", "e">>)
    ELSE p

\* a variant of SearchLists whose country block was copied from the lang block with
\* its key left unchanged
SearchListsCopyPaste(o, p) ==
    LET p1 == IF Len(o.Lang) > 0 THEN Add(p, "lang", Join(o.Lang, <<",">>)) ELSE p
        p2 == IF Len(o.Country) > 0 THEN Add(p1, "lang", Join(o.Country, <<",">>)) ELSE p1
        p3 == IF Len(o.Region) > 0 THEN Add(p2, "region", Join(o.Region, <<",">>)) ELSE p2
        p4 == IF Len(o.Category) > 0 THEN Add(p3, "category", Join(o.Category, <<",">>)) ELSE p3
        p5 == IF Len(o.Attributes) > 0
              THEN Add(p4, "attributes", Join(o.Attributes, <<",">>)) ELSE p4
    IN  IF Len(o.Publisher) > 0 THEN Add(p5, "publisher", Join(o.Publisher, <<",">>)) ELSE p5

SearchLists(o, p) ==
    LET p1 == IF Len(o.Lang) > 0 THEN Add(p, "lang", Join(o.Lang, <<",">>)) ELSE p
        p2 == IF Len(o.Country) > 0 THEN Add(p1, "country", Join(o.Country, <<",">>)) ELSE p1
        p3 == IF Len(o.Region) > 0 THEN Add(p2, "region", Join(o.Region, <<",">>)) ELSE p2
        p4 == IF Len(o.Category) > 0 THEN Add(p3, "category", Join(o.Category, <<",">>)) ELSE p3
        p5 == IF Len(o.Attributes) > 0
              THEN Add(p4, "attributes", Join(o.Attributes, <<",">>)) ELSE p4
    IN  IF Len(o.Publisher) > 0 THEN Add(p5, "publisher", Join(o.Publisher, <<",">>)) ELSE p5

\* a variant of SearchInts that sends every max that is not negative
SearchIntsNonNegative(o, p) ==
    LET p1 == IF o.Max >= 0 THEN Add(p, "max", Itoa(o.Max)) ELSE p
    IN  IF o.Page > 0 THEN Add(p1, "page", Itoa(o.Page)) ELSE p1

SearchInts(o, p) ==
    LET p1 == IF o.Max > 0 THEN Add(p, "max", Itoa(o.Max)) ELSE p
    IN  IF o.Page > 0 THEN Add(p1, "page", Itoa(o.Page)) ELSE p1

SearchStrings(o, p) ==
    LET p1 == IF o.SortBy # <<>> THEN Add(p, "sortby", o.SortBy) ELSE p
    IN  IF o.Format # <<>> THEN Add(p1, "format", o.Format) ELSE p1

\* lines 108-191: the parameters, or the error of the first date of a wrong type
SearchParams(c, o) ==
    LET p0 == Add(EmptyValues, "apikey", c.apiKey)
    IN  IF o.isNil THEN Built(p0)
        ELSE LET sd == SearchStartDate(o, SearchQuery(o, p0))
             IN  IF sd.err # "" THEN sd
                 ELSE LET ed == SearchEndDate(o, sd.params)
                      IN  IF ed.err # "" THEN ed
                          ELSE Built(SearchStrings(o, SearchInts(o,
                                   SearchLists(o, SearchContent(o, ed.params)))))

\* line 194: the request URL, kept in its parts, with the url.Values the query encodes
SearchURL(c, p) ==
    [base |-> c.baseURL, path |-> "/v1/search", params |-> p, query |-> Encode(p)]

-----------------------------------------------------------------------------
(* Client.Headlines: construction of the query parameters *)

HeadlinesQuery(o, p) == IF o.Query # <<>> THEN Add(p, "q", o.Query) ELSE p

HeadlinesStartDate(o, p) ==
    IF o.StartDate.kind # "nil"
    THEN CASE o.StartDate.kind = "string" -> Built(Add(p, "startDate", o.StartDate.str))
           [] o.StartDate.kind = "time" ->
                Built(Add(p, "startDate", FormatRFC3339(o.StartDate.tm)))
           [] OTHER -> Failed("startDate must be string or time.Time")
    ELSE Built(p)

\* a variant of HeadlinesEndDate that sends a date of any other type as text
HeadlinesEndDateLenient(o, p) ==
    IF o.EndDate.kind # "nil"
    THEN CASE o.EndDate.kind = "string" -> Built(Add(p, "endDate", o.EndDate.str))
           [] o.EndDate.kind = "time" ->
                Built(Add(p, "endDate", FormatRFC3339(o.EndDate.tm)))
           [] OTHER -> Built(Add(p, "endDate", <<"0">>))
    ELSE Built(p)

HeadlinesEndDate(o, p) ==
    IF o.EndDate.kind # "nil"
    THEN CASE o.EndDate.kind = "string" -> Built(Add(p, "endDate", o.EndDate.str))
           [] o.EndDate.kind = "time" ->
                Built(Add(p, "endDate", FormatRFC3339(o.EndDate.tm)))
           [] OTHER -> Failed("endDate must be string or time.Time")
    ELSE Built(p)

HeadlinesContent(o, p) ==
    IF ~o.Content.isNil
    THEN IF o.Content.v THEN Add(p, "content", <<"t", "r", "u", "e">>)
         ELSE Add(p, "content", <<"f", "a", "l", "s", "e">>)
    ELSE p

HeadlinesLists(o, p) ==
    LET p1 == IF Len(o.Lang) > 0 THEN Add(p, "lang", Join(o.Lang, <<",">>)) ELSE p
        p2 == IF Len(o.Country) > 0 THEN Add(p1, "country", Join(o.Country, <<",">>)) ELSE p1
        p3 == IF Len(o.Region) > 0 THEN Add(p2, "region", Join(o.Region, <<",">>)) ELSE p2
        p4 == IF Len(o.Category) > 0 THEN Add(p3, "category", Join(o.Category, <<",">>)) ELSE p3
        p5 == IF Len(o.Attributes) > 0
              THEN Add(p4, "attributes", Join(o.Attributes, <<",">>)) ELSE p4
    IN  IF Len(o.Publisher) > 0 THEN Add(p5, "publisher", Join(o.Publisher, <<",">>)) ELSE p5

\* a variant of HeadlinesInts that sends every page that is not negative
HeadlinesIntsZeroPage(o, p) ==
    LET p1 == IF o.Max > 0 THEN Add(p, "max", Itoa(o.Max)) ELSE p
    IN  IF o.Page >= 0 THEN Add(p1, "page", Itoa(o.Page)) ELSE p1

HeadlinesInts(o, p) ==
    LET p1 == IF o.Max > 0 THEN Add(p, "max", Itoa(o.Max)) ELSE p
    IN  IF o.Page > 0 THEN Add(p1, "page", Itoa(o.Page)) ELSE p1

HeadlinesStrings(o, p) ==
    LET p1 == IF o.SortBy # <<>> THEN Add(p, "sortby", o.SortBy) ELSE p
    IN  IF o.Format # <<>> THEN Add(p1, "format", o.Format) ELSE p1

\* lines 226-309
HeadlinesParams(c, o) ==
    LET p0 == Add(EmptyValues, "apikey", c.apiKey)
    IN  IF o.isNil THEN Built(p0)
        ELSE LET sd == HeadlinesStartDate(o, HeadlinesQuery(o, p0))
             IN  IF sd.err # "" THEN sd
                 ELSE LET ed == HeadlinesEndDate(o, sd.params)
                      IN  IF ed.err # "" THEN ed
                          ELSE Built(HeadlinesStrings(o, HeadlinesInts(o,
                                   HeadlinesLists(o, HeadlinesContent(o, ed.params)))))

\* line 312
HeadlinesURL(c, p) ==
    [base |-> c.baseURL, path |-> "/v1/headlines", params |-> p, query |-> Encode(p)]

\* fmt.Sprintf("%s/v1/<endpoint>?%s", c.baseURL, params.Encode()) as the string sent
URLString(u) == Str(u.base) \o u.path \o "?" \o u.query

-----------------------------------------------------------------------------
(* Results and errors *)

\* the zero SearchResponse; NextPage is a *int
NilInt == [isNil |-> TRUE, v |-> 0]
IntPtr(n) == [isNil |-> FALSE, v |-> n]
ZeroResponse ==
    [TotalArticles |-> 0, CurrentPage |-> 0, NextPage |-> NilInt, Articles |-> <<>>]

\* a *SearchResponse
NilResult == [isNil |-> TRUE, v |-> ZeroResponse]
ResultPtr(r) == [isNil |-> FALSE, v |-> r]

\* an error value: the return statement that made it, its text, and the error it wraps
NoError == [kind |-> "none", msg |-> "", cause |-> ""]
\* errors.New(msg)
ErrorsNew(k, msg) == [kind |-> k, msg |-> msg, cause |-> ""]
\* fmt.Errorf(prefix + ": %w", cause)
Wrap(k, prefix, cause) == [kind |-> k, msg |-> prefix \o ": " \o cause, cause |-> cause]

Returned(r, e) == [result |-> r, err |-> e]
NotReturned == Returned(NilResult, NoError)

-----------------------------------------------------------------------------
(* The HTTP transport and the JSON codec, as the code uses them *)

\* http.NewRequest(method, url, nil): url.Parse rejects a URL whose first
\* character is the colon of a missing scheme
NewRequest(method, u) ==
    IF Len(u.base) > 0 /\ u.base[1] = ":"
    THEN [err |-> "parse \"" \o URLString(u) \o "\": missing protocol scheme",
          req |-> [method |-> method, url |-> u, hasBody |-> FALSE]]
    ELSE [err |-> "", req |-> [method |-> method, url |-> u, hasBody |-> FALSE]]

\* httpClient.Do(req) under the network behaviour n: the response, or a *url.Error
\* that names the method and the URL of the request and wraps the failure
Do(req, n) ==
    IF n.ok THEN n
    ELSE [n EXCEPT !.err = "Get \"" \o URLString(req.url) \o "\": " \o n.cause]

\* what is left to read of a body: all its chunks, or those before the read fails
Readable(n) ==
    IF n.failAt < 0 THEN n.body.chunks ELSE SubSeq(n.body.chunks, 1, n.failAt)

\* io.ReadAll(resp.Body): the bytes read until EOF or the first error, and that error
ReadAll(n) ==
    [data |-> Str(Readable(n)),
     err |-> IF n.failAt < 0 THEN "" ELSE "read: connection reset by peer"]

\* one key of a JSON object decoded into the SearchResponse under construction;
\* a value of the wrong type leaves the field alone and is reported, null is a no-op
DecodeField(f, r) ==
    CASE f.name = "totalArticles" ->
            IF f.kind = "number" THEN [v |-> [r EXCEPT !.TotalArticles = f.num], err |-> ""]
            ELSE IF f.kind = "null" THEN [v |-> r, err |-> ""]
            ELSE [v |-> r, err |-> "json: cannot unmarshal " \o f.kind
                                     \o " into Go struct field SearchResponse.totalArticles of type int"]
      [] f.name = "currentPage" ->
            IF f.kind = "number" THEN [v |-> [r EXCEPT !.CurrentPage = f.num], err |-> ""]
            ELSE IF f.kind = "null" THEN [v |-> r, err |-> ""]
            ELSE [v |-> r, err |-> "json: cannot unmarshal " \o f.kind
                                     \o " into Go struct field SearchResponse.currentPage of type int"]
      [] f.name = "nextPage" ->
            IF f.kind = "number" THEN [v |-> [r EXCEPT !.NextPage = IntPtr(f.num)], err |-> ""]
            ELSE IF f.kind = "null" THEN [v |-> [r EXCEPT !.NextPage = NilInt], err |-> ""]
            ELSE [v |-> r, err |-> "json: cannot unmarshal " \o f.kind
                                     \o " into Go struct field SearchResponse.nextPage of type int"]
      [] f.name = "articles" ->
            IF f.kind = "array" THEN [v |-> [r EXCEPT !.Articles = f.arr], err |-> ""]
            ELSE IF f.kind = "null" THEN [v |-> r, err |-> ""]
            ELSE [v |-> r, err |-> "json: cannot unmarshal " \o f.kind
                                     \o " into Go struct field SearchResponse.articles of type []allnewsapi.Article"]
      [] OTHER -> [v |-> r, err |-> ""]

\* the keys of the object in order; the first type error is kept, decoding goes on
RECURSIVE DecodeFields(_, _)
DecodeFields(fs, acc) ==
    IF fs = <<>> THEN acc
    ELSE LET d == DecodeField(Head(fs), acc.v)
         IN  DecodeFields(Tail(fs),
                          [v |-> d.v, err |-> IF acc.err # "" THEN acc.err ELSE d.err])

\* json.NewDecoder(resp.Body).Decode(&searchResponse): the value left in
\* searchResponse and the error. The decoder reads one whole JSON value before it
\* stores anything.
Decode(n) ==
    IF n.failAt >= 0 /\ n.failAt < Len(n.body.chunks)
    THEN [v |-> ZeroResponse, err |-> "read: connection reset by peer"]
    ELSE CASE n.body.syntax = "empty" -> [v |-> ZeroResponse, err |-> "EOF"]
           [] n.body.syntax = "truncated" -> [v |-> ZeroResponse, err |-> "unexpected EOF"]
           [] n.body.syntax = "invalid" ->
                [v |-> ZeroResponse,
                 err |-> "invalid character looking for beginning of value"]
           [] n.body.top # "object" ->
                [v |-> ZeroResponse,
                 err |-> "json: cannot unmarshal " \o n.body.top
                           \o " into Go value of type allnewsapi.SearchResponse"]
           [] OTHER -> DecodeFields(n.body.fields, [v |-> ZeroResponse, err |-> ""])

\* what httpClient.Do has not returned yet
NoReply ==
    [ok |-> FALSE, cause |-> "", err |-> "", status |-> 0,
     body |-> [chunks |-> <<>>, syntax |-> "empty", top |-> "", fields |-> <<>>],
     failAt |-> -1]

\* what a call did to the body it was given
NoIO == [reads |-> 0, decodes |-> 0, closes |-> 0, partial |-> ZeroResponse]

-----------------------------------------------------------------------------
(* Client.Search and Client.Headlines after httpClient.Do has returned *)

\* a variant of SearchTransportError that drops the error
SearchTransportErrorSwallowed(n) == [out |-> Returned(NilResult, NoError), io |-> NoIO]

\* lines 203-205: httpClient.Do failed; there is no response and nothing to close
SearchTransportError(n) ==
    [out |-> Returned(NilResult, Wrap("transport", "error making request", n.err)),
     io |-> NoIO]

\* a variant of SearchAPIError without the deferred close: the body is closed on the
\* success path only
SearchAPIErrorNoClose(n) ==
    [out |-> Returned(NilResult,
                [kind |-> "api",
                 msg |-> "API error (status " \o Str(Itoa(n.status)) \o "): " \o ReadAll(n).data,
                 cause |-> ""]),
     io |-> [NoIO EXCEPT !.reads = 1]]

\* lines 209-212: the status is not 200; the deferred close runs at the return
SearchAPIError(n) ==
    [out |-> Returned(NilResult,
                [kind |-> "api",
                 msg |-> "API error (status " \o Str(Itoa(n.status)) \o "): " \o ReadAll(n).data,
                 cause |-> ""]),
     io |-> [NoIO EXCEPT !.reads = 1, !.closes = 1]]

\* lines 214-221: the body is decoded; the deferred close runs at the return
SearchParse(n) ==
    LET d == Decode(n)
    IN  IF d.err # ""
        THEN [out |-> Returned(NilResult, Wrap("parse", "error parsing response", d.err)),
              io |-> [NoIO EXCEPT !.decodes = 1, !.closes = 1, !.partial = d.v]]
        ELSE [out |-> Returned(ResultPtr(d.v), NoError),
              io |-> [NoIO EXCEPT !.decodes = 1, !.closes = 1, !.partial = d.v]]

\* a variant of SearchAfterDo that takes every 2xx status for a success
SearchAfterDoAny2xx(n) ==
    IF ~n.ok THEN SearchTransportError(n)
    ELSE IF n.status \div 100 # 2 THEN SearchAPIError(n)
    ELSE SearchParse(n)

\* lines 203-221, with the deferred resp.Body.Close() of line 206
SearchAfterDo(n) ==
    IF ~n.ok THEN SearchTransportError(n)
    ELSE IF n.status # StatusOK THEN SearchAPIError(n)
    ELSE SearchParse(n)

\* lines 321-323
HeadlinesTransportError(n) ==
    [out |-> Returned(NilResult, Wrap("transport", "error making request", n.err)),
     io |-> NoIO]

\* lines 327-330
HeadlinesAPIError(n) ==
    [out |-> Returned(NilResult,
                [kind |-> "api",
                 msg |-> "API error (status " \o Str(Itoa(n.status)) \o "): " \o ReadAll(n).data,
                 cause |-> ""]),
     io |-> [NoIO EXCEPT !.reads = 1, !.closes = 1]]

\* a variant of HeadlinesParse that returns what was decoded along with the error
HeadlinesParsePartial(n) ==
    LET d == Decode(n)
    IN  IF d.err # ""
        THEN [out |-> Returned(ResultPtr(d.v), Wrap("parse", "error parsing response", d.err)),
              io |-> [NoIO EXCEPT !.decodes = 1, !.closes = 1, !.partial = d.v]]
        ELSE [out |-> Returned(ResultPtr(d.v), NoError),
              io |-> [NoIO EXCEPT !.decodes = 1, !.closes = 1, !.partial = d.v]]

\* lines 332-339
HeadlinesParse(n) ==
    LET d == Decode(n)
    IN  IF d.err # ""
        THEN [out |-> Returned(NilResult, Wrap("parse", "error parsing response", d.err)),
              io |-> [NoIO EXCEPT !.decodes = 1, !.closes = 1, !.partial = d.v]]
        ELSE [out |-> Returned(ResultPtr(d.v), NoError),
              io |-> [NoIO EXCEPT !.decodes = 1, !.closes = 1, !.partial = d.v]]

\* lines 321-339, with the deferred resp.Body.Close() of line 324
HeadlinesAfterDo(n) ==
    IF ~n.ok THEN HeadlinesTransportError(n)
    ELSE IF n.status # StatusOK THEN HeadlinesAPIError(n)
    ELSE HeadlinesParse(n)

\* Search as one function of the client, the options and the network behaviour:
\* the requests it issues and what it returns (lines 107-222)
SearchCall(c, o, n) ==
    LET b == SearchParams(c, o)
        r == NewRequest("GET", SearchURL(c, b.params))
    IN  IF b.err # ""
        THEN [sent |-> <<>>, out |-> Returned(NilResult, ErrorsNew("misuse", b.err))]
        ELSE IF r.err # ""
        THEN [sent |-> <<>>,
              out |-> Returned(NilResult, Wrap("create", "error creating request", r.err))]
        ELSE [sent |-> <<r.req>>, out |-> SearchAfterDo(Do(r.req, n)).out]

\* Headlines as one function (lines 225-340)
HeadlinesCall(c, o, n) ==
    LET b == HeadlinesParams(c, o)
        r == NewRequest("GET", HeadlinesURL(c, b.params))
    IN  IF b.err # ""
        THEN [sent |-> <<>>, out |-> Returned(NilResult, ErrorsNew("misuse", b.err))]
        ELSE IF r.err # ""
        THEN [sent |-> <<>>,
              out |-> Returned(NilResult, Wrap("create", "error creating request", r.err))]
        ELSE [sent |-> <<r.req>>, out |-> HeadlinesAfterDo(Do(r.req, n)).out]

-----------------------------------------------------------------------------
(* Inputs: the clients, options and server replies the model draws from *)

\* line 74
DefaultBaseURL ==
    <<"h", "t", "t", "p", "s", ":", "/", "/", "a", "p", "i", ".", "a", "l", "l", "n", "e",
      "w", "s", "a", "p", "i", ".", "c", "o", "m">>

\* NewClient(apiKey, options...): the key is never empty; WithBaseURL and
\* WithTimeout replace the defaults
NewClient(apiKey, baseURL, timeout) ==
    [apiKey |-> apiKey, baseURL |-> baseURL, timeout |-> timeout]

Clients ==
    {NewClient(<<"k", "1">>, DefaultBaseURL, DefaultTimeout),
     NewClient(<<"K", "=", "2">>,
               <<"h", "t", "t", "p", ":", "/", "/", "l", "o", "c", "a", "l", ":", "8", "0">>, 5),
     NewClient(<<"k", "1">>, <<":", "/", "/", "b", "a", "d">>, DefaultTimeout)}

Time1 == [Y |-> 2024, M |-> 1, D |-> 2, h |-> 3, m |-> 4, s |-> 5, off |-> 0]
Time2 == [Y |-> 987, M |-> 12, D |-> 31, h |-> 23, m |-> 59, s |-> 59, off |-> -330]

DateValues ==
    {DateNil, DateString(<<"2", "0", "2", "4", "-", "0", "1", "-", "0", "1">>),
     DateString(<<>>), DateTime(Time1), DateTime(Time2), DateOther("int"),
     DateOther("ptrTime")}

\* list elements: plain, with whitespace, with a comma, empty
Elements == {<<"e", "n">>, <<" ", "f", "r">>, <<>>}

RECURSIVE ListsUpTo(_)
ListsUpTo(n) ==
    IF n = 0 THEN {<<>>}
    ELSE LET shorter == ListsUpTo(n - 1)
         IN  shorter \cup {Append(l, e) : l \in {x \in shorter : Len(x) = n - 1}, e \in Elements}

Lists == ListsUpTo(MaxListLen)

ListFields == {"Lang", "Country", "Region", "Category", "Attributes", "Publisher"}

\* every field set
FullOptions ==
    [isNil |-> FALSE, Query |-> <<"a", "&", "b">>, StartDate |-> DateNil, EndDate |-> DateNil,
     Content |-> BoolPtr(FALSE), Lang |-> <<<<"e", "n">>, <<"f", "r">>>>,
     Country |-> <<<<"u", "s">>>>, Region |-> <<<<"e", "u">>>>,
     Category |-> <<<<"t", "e", "c", "h">>>>, Max |-> 100,
     Attributes |-> <<<<"t", "i", "t", "l", "e">>>>, Page |-> 2,
     SortBy |-> <<"r", "e", "l", "e", "v", "a", "n", "c", "e">>,
     Publisher |-> <<<<"B", "B", "C">>>>, Format |-> <<"c", "s", "v">>]

DateOptions ==
    {[b EXCEPT !.StartDate = sd, !.EndDate = ed] :
        b \in {ZeroOptions, FullOptions}, sd \in DateValues, ed \in DateValues}

ListOptions ==
    {[ZeroOptions EXCEPT ![f] = l] : f \in ListFields, l \in Lists}
        \cup {[ZeroOptions EXCEPT !.Lang = l, !.Country = l, !.Region = l, !.Category = l,
                                  !.Attributes = l, !.Publisher = l] : l \in Lists}

ScalarOptions ==
    {[ZeroOptions EXCEPT !.Query = q, !.Content = ct, !.Max = mx, !.Page = pg] :
        q \in {<<>>, <<"a", " ", "b">>},
        ct \in {BoolNil, BoolPtr(TRUE), BoolPtr(FALSE)},
        mx \in {-1, 0, 5, 100},
        pg \in {-1, 0, 12}}
        \cup {[ZeroOptions EXCEPT !.Query = q, !.SortBy = sb, !.Format = fm] :
                q \in {<<>>, <<"a", " ", "b">>},
                sb \in {<<>>, <<"p", "u", "b", "l", "i", "s", "h", "e", "d", "A", "t">>},
                fm \in {<<>>, <<"c", "s", "v">>}}

AllOptions == {NilOptions} \cup DateOptions \cup ListOptions \cup ScalarOptions

\* the options of concurrent callers: one of each shape
FewOptions ==
    {NilOptions, FullOptions, [ZeroOptions EXCEPT !.StartDate = DateOther("int")],
     [ZeroOptions EXCEPT !.Max = 5]}

Article(title, source) == [Title |-> title, SourceName |-> source]

JNumber(name, n) == [name |-> name, kind |-> "number", num |-> n, arr |-> <<>>]
JString(name) == [name |-> name, kind |-> "string", num |-> 0, arr |-> <<>>]
JNull(name) == [name |-> name, kind |-> "null", num |-> 0, arr |-> <<>>]
JArray(name, a) == [name |-> name, kind |-> "array", num |-> 0, arr |-> a]

\* a well-formed page, sent in two chunks
BodyPage ==
    [chunks |-> <<"{\"totalArticles\":2,\"currentPage\":1,\"nextPage\":null,",
                  "\"articles\":[{\"title\":\"A\",\"source\":{\"name\":\"S\"}}]}">>,
     syntax |-> "ok", top |-> "object",
     fields |-> <<JNumber("totalArticles", 2), JNumber("currentPage", 1), JNull("nextPage"),
                  JArray("articles", <<Article("A", "S")>>)>>]

\* a page with a next page and an unknown key
BodyMore ==
    [chunks |-> <<"{\"totalArticles\":30,\"currentPage\":2,\"nextPage\":3,\"took\":5}">>,
     syntax |-> "ok", top |-> "object",
     fields |-> <<JNumber("totalArticles", 30), JNumber("currentPage", 2),
                  JNumber("nextPage", 3), JNumber("took", 5)>>]

\* not JSON
BodyText ==
    [chunks |-> <<"rate ", "limited">>, syntax |-> "invalid", top |-> "", fields |-> <<>>]

\* JSON cut short
BodyTruncated ==
    [chunks |-> <<"{\"totalArticles\":2,\"curr">>, syntax |-> "truncated", top |-> "",
     fields |-> <<>>]

\* well-formed JSON with a value of the wrong type after a good one
BodyMistyped ==
    [chunks |-> <<"{\"totalArticles\":7,\"currentPage\":\"one\",\"nextPage\":4}">>,
     syntax |-> "ok", top |-> "object",
     fields |-> <<JNumber("totalArticles", 7), JString("currentPage"),
                  JNumber("nextPage", 4)>>]

\* well-formed JSON that is not an object
BodyQuoted ==
    [chunks |-> <<"\"rate limited\"">>, syntax |-> "ok", top |-> "string", fields |-> <<>>]

BodyEmpty == [chunks |-> <<>>, syntax |-> "empty", top |-> "", fields |-> <<>>]

Bodies == {BodyPage, BodyMore, BodyText, BodyTruncated, BodyMistyped, BodyQuoted, BodyEmpty}

Response(status, body, failAt) ==
    [ok |-> TRUE, cause |-> "", err |-> "", status |-> status, body |-> body,
     failAt |-> failAt]

\* the network fails: no response
TransportError(cause) ==
    [ok |-> FALSE, cause |-> cause, err |-> "", status |-> 0, body |-> NoReply.body,
     failAt |-> -1]

\* the body read fails after failAt chunks; -1: it does not fail
AllReplies ==
    {n \in {Response(StatusOK, b, k) : b \in Bodies, k \in -1..1}
              \cup {Response(st, b, k) : st \in {201, 429, 500},
                                         b \in {BodyPage, BodyText, BodyEmpty}, k \in -1..1} :
        n.failAt <= Len(n.body.chunks)}
        \cup {TransportError(c) :
                c \in {"context deadline exceeded (Client.Timeout exceeded while awaiting headers)",
                       "dial tcp: connection refused"}}

FewReplies ==
    {Response(200, BodyPage, -1), Response(200, BodyMistyped, -1),
     Response(429, BodyText, 1), TransportError("dial tcp: connection refused")}

\* what the callers ts draw from: every shape when one caller runs alone, one of
\* each shape when two run interleaved
OptionsOf(ts) == IF Cardinality(ts) = 1 THEN AllOptions ELSE FewOptions
RepliesOf(ts) == IF Cardinality(ts) = 1 THEN AllReplies ELSE FewReplies

-----------------------------------------------------------------------------
(* The state machine *)

\* the goroutines that may call the client
Callers == {1, 2}

\* one client, built by NewClient (lines 67-86), and no call under way; ts are the
\* callers that run
InitWith(ts) ==
    /\ client \in Clients
    /\ threads = ts
    /\ optsMem = [i \in Callers |-> NilOptions]
    /\ endpoint = [i \in Callers |-> "search"]
    /\ pc = [i \in Callers |-> "idle"]
    /\ sent = [i \in Callers |-> <<>>]
    /\ net = [i \in Callers |-> NoReply]
    /\ bodyOpen = [i \in Callers |-> FALSE]
    /\ io = [i \in Callers |-> NoIO]
    /\ outcome = [i \in Callers |-> NotReturned]

Init == InitWith({1})

InitConc == InitWith({1, 2})

\* a caller invokes client.Search(options) or client.Headlines(options)
Invoke(i) ==
    /\ i \in threads
    /\ pc[i] = "idle"
    /\ \E ep \in {"search", "headlines"}, o \in OptionsOf(threads) :
          /\ endpoint' = [endpoint EXCEPT ![i] = ep]
          /\ optsMem' = [optsMem EXCEPT ![i] = o]
    /\ pc' = [pc EXCEPT ![i] = "called"]
    /\ UNCHANGED <<client, threads, sent, net, bodyOpen, io, outcome>>

\* the call returns before any request: an invalid date, or a URL that does not parse
ReturnEarly(i, e) ==
    /\ pc' = [pc EXCEPT ![i] = "done"]
    /\ outcome' = [outcome EXCEPT ![i] = Returned(NilResult, e)]
    /\ UNCHANGED <<client, threads, optsMem, endpoint, sent, net, bodyOpen, io>>

\* a variant of Send that keeps the request in a field of the client, where it
\* replaces the request of a call that is in flight
SendThroughSharedField(i, req) ==
    /\ pc' = [pc EXCEPT ![i] = "inflight"]
    /\ sent' = [j \in Callers |-> IF j = i \/ pc[j] = "inflight" THEN <<req>> ELSE sent[j]]
    /\ UNCHANGED <<client, threads, optsMem, endpoint, net, bodyOpen, io, outcome>>

\* the request is handed to httpClient.Do
Send(i, req) ==
    /\ pc' = [pc EXCEPT ![i] = "inflight"]
    /\ sent' = [sent EXCEPT ![i] = Append(@, req)]
    /\ UNCHANGED <<client, threads, optsMem, endpoint, net, bodyOpen, io, outcome>>

\* Search, lines 107-202: up to the call of httpClient.Do
SearchBegin(i) ==
    /\ pc[i] = "called"
    /\ endpoint[i] = "search"
    /\ LET b == SearchParams(client, optsMem[i])
           r == NewRequest("GET", SearchURL(client, b.params))
       IN  IF b.err # "" THEN ReturnEarly(i, ErrorsNew("misuse", b.err))
           ELSE IF r.err # ""
           THEN ReturnEarly(i, Wrap("create", "error creating request", r.err))
           ELSE Send(i, r.req)

\* Headlines, lines 225-320: up to the call of httpClient.Do
HeadlinesBegin(i) ==
    /\ pc[i] = "called"
    /\ endpoint[i] = "headlines"
    /\ LET b == HeadlinesParams(client, optsMem[i])
           r == NewRequest("GET", HeadlinesURL(client, b.params))
       IN  IF b.err # "" THEN ReturnEarly(i, ErrorsNew("misuse", b.err))
           ELSE IF r.err # ""
           THEN ReturnEarly(i, Wrap("create", "error creating request", r.err))
           ELSE Send(i, r.req)

\* httpClient.Do returns: a transport failure, or a response whose body is open
Transport(i) ==
    /\ pc[i] = "inflight"
    /\ \E n \in RepliesOf(threads) :
          /\ net' = [net EXCEPT ![i] = Do(sent[i][1], n)]
          /\ bodyOpen' = [bodyOpen EXCEPT ![i] = n.ok]
    /\ pc' = [pc EXCEPT ![i] = "replied"]
    /\ UNCHANGED <<client, threads, optsMem, endpoint, sent, io, outcome>>

\* the rest of the call, the deferred close included, and its return
Finish(i, a) ==
    /\ pc' = [pc EXCEPT ![i] = "done"]
    /\ outcome' = [outcome EXCEPT ![i] = a.out]
    /\ io' = [io EXCEPT ![i] = a.io]
    /\ bodyOpen' = [bodyOpen EXCEPT ![i] = @ /\ a.io.closes = 0]
    /\ UNCHANGED <<client, threads, optsMem, endpoint, sent, net>>

\* a variant of SearchEnd that sends the request again after a transport failure
SearchEndRetry(i) ==
    /\ pc[i] = "replied"
    /\ endpoint[i] = "search"
    /\ IF ~net[i].ok /\ Len(sent[i]) < 3
       THEN /\ pc' = [pc EXCEPT ![i] = "inflight"]
            /\ sent' = [sent EXCEPT ![i] = Append(@, sent[i][1])]
            /\ UNCHANGED <<client, threads, optsMem, endpoint, net, bodyOpen, io, outcome>>
       ELSE Finish(i, SearchAfterDo(net[i]))

\* Search, lines 203-221
SearchEnd(i) ==
    /\ pc[i] = "replied"
    /\ endpoint[i] = "search"
    /\ Finish(i, SearchAfterDo(net[i]))

\* Headlines, lines 321-339
HeadlinesEnd(i) ==
    /\ pc[i] = "replied"
    /\ endpoint[i] = "headlines"
    /\ Finish(i, HeadlinesAfterDo(net[i]))

\* the caller has its result; the call leaves nothing behind
Return(i) ==
    /\ pc[i] = "done"
    /\ pc' = [pc EXCEPT ![i] = "idle"]
    /\ optsMem' = [optsMem EXCEPT ![i] = NilOptions]
    /\ endpoint' = [endpoint EXCEPT ![i] = "search"]
    /\ sent' = [sent EXCEPT ![i] = <<>>]
    /\ net' = [net EXCEPT ![i] = NoReply]
    /\ io' = [io EXCEPT ![i] = NoIO]
    /\ outcome' = [outcome EXCEPT ![i] = NotReturned]
    /\ UNCHANGED <<client, threads, bodyOpen>>

Next ==
    \E i \in Callers :
        \/ Invoke(i)
        \/ SearchBegin(i)
        \/ HeadlinesBegin(i)
        \/ Transport(i)
        \/ SearchEnd(i)
        \/ HeadlinesEnd(i)
        \/ Return(i)

\* one caller at a time, every shape of options and of reply
Spec == Init /\ [][Next]_vars

\* two callers sharing the client, their calls interleaved
SpecConc == InitConc /\ [][Next]_vars

-----------------------------------------------------------------------------
(* The claims *)

Done(i) == pc[i] = "done"

\* a date option the type switch rejects
BadDate(d) == d.kind \notin {"nil", "string", "time"}

HasBadDate(o) == ~o.isNil /\ (BadDate(o.StartDate) \/ BadDate(o.EndDate))

\* C1: in Search and in Headlines, a call whose StartDate or EndDate is non-nil and
\* neither a string nor a time.Time never hands a request to the transport, and
\* returns a nil result with the error of the first date of a wrong type, whatever
\* the other fields are.
C1_InvalidDateNoRequest ==
    \A i \in Callers :
        (pc[i] # "idle" /\ HasBadDate(optsMem[i])) =>
            /\ pc[i] \in {"called", "done"}
            /\ sent[i] = <<>>
            /\ net[i] = NoReply
            /\ Done(i) =>
                /\ outcome[i].result.isNil
                /\ outcome[i].err.kind = "misuse"
                /\ outcome[i].err.msg =
                      IF BadDate(optsMem[i].StartDate)
                      THEN "startDate must be string or time.Time"
                      ELSE "endDate must be string or time.Time"

\* a Headlines call with every other field set, a good start date and an end date of
\* another type has returned
C1_Witness ==
    /\ Done(1)
    /\ endpoint[1] = "headlines"
    /\ optsMem[1] = [FullOptions EXCEPT !.StartDate = DateTime(Time1),
                                        !.EndDate = DateOther("ptrTime")]
    /\ outcome[1].err.msg = "endDate must be string or time.Time"

\* the bytes of the body that a read obtains: all of it, or what precedes the failure
BytesRead(n) ==
    Str([k \in 1..(IF n.failAt < 0 THEN Len(n.body.chunks) ELSE n.failAt) |-> n.body.chunks[k]])

\* C2 as amended: for every response whose status is not 200 (other 2xx codes
\* included) the call returns no SearchResponse and an API error made of the status
\* code and the body text read (when the read fails, the bytes read before the
\* failure), and never decodes the body.
C2_NonOKIsAPIError ==
    \A i \in Callers :
        (Done(i) /\ net[i].ok /\ net[i].status # 200) =>
            /\ outcome[i].result.isNil
            /\ outcome[i].err.kind = "api"
            /\ outcome[i].err.msg =
                  "API error (status " \o Str(Itoa(net[i].status)) \o "): " \o BytesRead(net[i])
            /\ io[i].decodes = 0

\* C2 as stated: the error carries an empty body whenever the body read fails
C2_EmptyBodyOnReadFailure ==
    \A i \in Callers :
        (Done(i) /\ net[i].ok /\ net[i].status # 200 /\ net[i].failAt >= 0) =>
            outcome[i].err.msg = "API error (status " \o Str(Itoa(net[i].status)) \o "): "

\* a 201 whose body read failed after the first chunk
C2_Witness ==
    /\ Done(1)
    /\ net[1] = Response(201, BodyText, 1)
    /\ outcome[1].err.msg = "API error (status 201): rate "

\* C3: for every 200 response whose body does not decode into SearchResponse, the
\* call returns a nil result and a decode error that wraps the cause, also when some
\* fields had been decoded before the failure.
C3_DecodeFailureNoPartialResult ==
    \A i \in Callers :
        (Done(i) /\ net[i].ok /\ net[i].status = 200 /\ Decode(net[i]).err # "") =>
            /\ outcome[i].result.isNil
            /\ outcome[i].err.kind = "parse"
            /\ outcome[i].err.cause = Decode(net[i]).err
            /\ outcome[i].err.msg = "error parsing response: " \o outcome[i].err.cause
            /\ io[i].decodes = 1

\* a 200 whose body had totalArticles and nextPage decoded before currentPage failed
C3_Witness ==
    /\ Done(1)
    /\ net[1] = Response(200, BodyMistyped, -1)
    /\ io[1].partial.TotalArticles = 7
    /\ ~io[1].partial.NextPage.isNil
    /\ outcome[1].result.isNil
    /\ outcome[1].err.kind = "parse"

\* C4: a call hands at most one request, a GET without body, to the transport; when
\* the transport fails the call returns a nil result and an error wrapping the cause,
\* having made that one attempt only.
C4_AtMostOneRequest ==
    \A i \in Callers :
        /\ Len(sent[i]) <= 1
        /\ \A k \in 1..Len(sent[i]) : sent[i][k].method = "GET" /\ ~sent[i][k].hasBody
        /\ (Done(i) /\ sent[i] # <<>> /\ ~net[i].ok) =>
              /\ outcome[i].result.isNil
              /\ outcome[i].err.kind = "transport"
              /\ outcome[i].err.cause = net[i].err
              /\ outcome[i].err.msg =
                    "error making request: Get \"" \o URLString(sent[i][1].url) \o "\": "
                        \o net[i].cause
              /\ Len(sent[i]) = 1

\* a Search call whose single request timed out has returned
C4_Witness ==
    /\ Done(1)
    /\ endpoint[1] = "search"
    /\ Len(sent[1]) = 1
    /\ net[1].cause = "context deadline exceeded (Client.Timeout exceeded while awaiting headers)"
    /\ outcome[1].err.kind = "transport"

\* C5: when a call returns, no body is open: a response that was obtained has had
\* its body closed, once, on the success, API-error and decode-error paths alike,
\* and a call without response has opened and closed nothing.
C5_BodyClosedOnReturn ==
    \A i \in Callers :
        /\ pc[i] \in {"idle", "called", "inflight", "done"} => ~bodyOpen[i]
        /\ Done(i) => io[i].closes = (IF net[i].ok THEN 1 ELSE 0)

\* a call that got a 500 has returned its API error
C5_Witness ==
    /\ Done(1)
    /\ endpoint[1] = "search"
    /\ net[1].ok
    /\ net[1].status = 500
    /\ outcome[1].err.kind = "api"
    /\ io[1].closes = 1
    /\ ~bodyOpen[1]

\* the terminal outcome a returned pair (result, error) stands for, "none" when it
\* is no outcome at all
Class(out) ==
    IF ~out.result.isNil
    THEN IF out.err.kind = "none" THEN "success" ELSE "none"
    ELSE CASE out.err.kind = "api" -> "API error"
           [] out.err.kind \in {"transport", "parse"} -> "transport/parse error"
           [] out.err.kind = "misuse" -> "caller-misuse error"
           [] out.err.kind = "create" -> "request-creation error"
           [] OTHER -> "none"

\* C6 as amended: every call ends in exactly one of five outcomes: success, API
\* error or transport/parse error after its one request, or, with no request made,
\* a caller-misuse error (a date of a wrong type) or a request-creation error; and
\* it is stateless: nothing of it is left once it has returned.
C6_FiveOutcomes ==
    \A i \in Callers :
        /\ Done(i) =>
              /\ Class(outcome[i]) \in
                    {"success", "API error", "transport/parse error", "caller-misuse error",
                     "request-creation error"}
              /\ Class(outcome[i]) \in {"success", "API error", "transport/parse error"}
                    <=> Len(sent[i]) = 1
              /\ Class(outcome[i]) \in {"caller-misuse error", "request-creation error"}
                    <=> sent[i] = <<>>
        /\ pc[i] = "idle" =>
              /\ sent[i] = <<>> /\ net[i] = NoReply /\ io[i] = NoIO
              /\ outcome[i] = NotReturned /\ ~bodyOpen[i]

\* C6 as stated: every call ends in success, API error or transport/parse error
C6_ThreeOutcomes ==
    \A i \in Callers :
        Done(i) => Class(outcome[i]) \in {"success", "API error", "transport/parse error"}

\* a call has ended with a transport error
C6_Witness ==
    /\ Done(1)
    /\ endpoint[1] = "search"
    /\ Len(sent[1]) = 1
    /\ Class(outcome[1]) = "transport/parse error"
    /\ outcome[1].err.kind = "transport"

\* the network behaviour behind what httpClient.Do returned
Network(n) == [n EXCEPT !.err = ""]

\* the two request URLs are the same but for the path segment
OnlyPathDiffers(su, hu) ==
    /\ su.path = "/v1/search"
    /\ hu.path = "/v1/headlines"
    /\ [su EXCEPT !.path = hu.path] = hu
    /\ URLString(su) = Str(su.base) \o "/v1/search?" \o su.query
    /\ URLString(hu) = Str(su.base) \o "/v1/headlines?" \o su.query

\* what the call of caller i is, run as Search and run as Headlines
AsSearch(i) == SearchCall(client, optsMem[i], Network(net[i]))
AsHeadlines(i) == HeadlinesCall(client, optsMem[i], Network(net[i]))
Own(i) == IF endpoint[i] = "search" THEN AsSearch(i) ELSE AsHeadlines(i)

\* the call of caller i does what its method does
RunsOwnMethod(i) ==
    LET own == Own(i)
    IN  /\ pc[i] = "called" => sent[i] = <<>>
        /\ pc[i] \in {"inflight", "replied"} => sent[i] = own.sent
        /\ Done(i) => sent[i] = own.sent /\ outcome[i] = own.out

\* C7 as amended: for every client, options value (nil included) and network
\* behaviour, Search and Headlines build the same parameters and the same query
\* string, send requests whose URLs differ in the path segment only, and return the
\* same result and the same kind of error; the error text is the same too, except
\* where it quotes the request URL (request-creation and transport errors), which
\* differs in that path segment.
C7_EndpointsAgreeUpToQuotedURL ==
    \A i \in Callers :
        pc[i] # "idle" =>
            LET s == AsSearch(i)
                h == AsHeadlines(i)
            IN  /\ RunsOwnMethod(i)
                /\ SearchParams(client, optsMem[i]) = HeadlinesParams(client, optsMem[i])
                /\ Len(s.sent) = Len(h.sent)
                /\ \A k \in 1..Len(s.sent) :
                      /\ OnlyPathDiffers(s.sent[k].url, h.sent[k].url)
                      /\ [s.sent[k] EXCEPT !.url = h.sent[k].url] = h.sent[k]
                /\ pc[i] \in {"replied", "done"} \/ s.sent = <<>> =>
                      /\ s.out.result = h.out.result
                      /\ s.out.err.kind = h.out.err.kind
                      /\ s.out.err.kind \notin {"create", "transport"} => s.out = h.out

\* C7 as stated: Search and Headlines return the same result or error
C7_SameOutcome ==
    \A i \in Callers : Done(i) => AsSearch(i).out = AsHeadlines(i).out

\* a Headlines call with every field set got a page
C7_Witness ==
    /\ Done(1)
    /\ endpoint[1] = "headlines"
    /\ optsMem[1] = [FullOptions EXCEPT !.StartDate = DateTime(Time2)]
    /\ Len(sent[1]) = 1
    /\ sent[1][1].url.path = "/v1/headlines"
    /\ net[1] = Response(200, BodyPage, -1)
    /\ outcome[1].result = ResultPtr([TotalArticles |-> 2, CurrentPage |-> 1,
                                      NextPage |-> NilInt,
                                      Articles |-> <<Article("A", "S")>>])

\* the parameter keys and the options they come from
ScalarKeys == {"q", "startDate", "endDate", "content", "max", "page", "sortby", "format"}

Specified(o, key) ==
    /\ ~o.isNil
    /\ CASE key = "q" -> o.Query # <<>>
         [] key = "startDate" -> o.StartDate.kind # "nil"
         [] key = "endDate" -> o.EndDate.kind # "nil"
         [] key = "content" -> ~o.Content.isNil
         [] key = "max" -> o.Max > 0
         [] key = "page" -> o.Page > 0
         [] key = "sortby" -> o.SortBy # <<>>
         [] key = "format" -> o.Format # <<>>

ListKey(f) ==
    CASE f = "Lang" -> "lang"
      [] f = "Country" -> "country"
      [] f = "Region" -> "region"
      [] f = "Category" -> "category"
      [] f = "Attributes" -> "attributes"
      [] f = "Publisher" -> "publisher"

\* where element k of list l starts in the joined value, less one
RECURSIVE Offset(_, _)
Offset(l, k) == IF k = 1 THEN 0 ELSE Offset(l, k - 1) + Len(l[k - 1]) + 1

\* v is the elements of the non-empty list l, each in its place and unchanged, with
\* one comma between neighbours and nothing else
IsJoined(v, l) ==
    /\ Len(v) = Offset(l, Len(l)) + Len(l[Len(l)])
    /\ \A k \in 1..Len(l) :
          /\ SubSeq(v, Offset(l, k) + 1, Offset(l, k) + Len(l[k])) = l[k]
          /\ k < Len(l) => v[Offset(l, k) + Len(l[k]) + 1] = ","

\* C9: in every request, each of lang, country, region, category, attributes and
\* publisher is absent when its list is empty, and otherwise has one value: the
\* elements in the caller's order, duplicates and empty elements kept, each element
\* unchanged, separated by single commas; on the wire that value is query-escaped.
C9_ListsJoinedInOrder ==
    \A i \in Callers :
        sent[i] # <<>> =>
            LET p == sent[i][1].url.params
                o == optsMem[i]
            IN  \A f \in ListFields :
                    IF o.isNil \/ Len(o[f]) = 0 THEN ListKey(f) \notin DOMAIN p
                    ELSE /\ ListKey(f) \in DOMAIN p
                         /\ Len(p[ListKey(f)]) = 1
                         /\ IsJoined(p[ListKey(f)][1], o[f])
                         /\ DOMAIN p = {"apikey", ListKey(f)} =>
                               sent[i][1].url.query =
                                   "apikey=" \o QueryEscape(client.apiKey) \o "&" \o ListKey(f)
                                       \o "=" \o QueryEscape(p[ListKey(f)][1])

\* a Headlines request for the countries " fr", " fr": the duplicate and the
\* whitespace are kept
C9_Witness ==
    /\ pc[1] = "inflight"
    /\ endpoint[1] = "headlines"
    /\ optsMem[1] = [ZeroOptions EXCEPT !.Country = <<<<" ", "f", "r">>, <<" ", "f", "r">>>>]
    /\ sent[1][1].url.params["country"] = <<<<" ", "f", "r", ",", " ", "f", "r">>>>
    /\ sent[1][1].url.query = "apikey=k1&country=+fr%2C+fr"

\* no step of a call changes the client or the options the call was given
CallsWriteNothingShared ==
    /\ client' = client
    /\ \A i \in Callers : (pc[i] # "idle" /\ pc'[i] # "idle") => optsMem'[i] = optsMem[i]

\* C10: Search and Headlines never modify the client's configuration nor the options
\* they are given, and in every interleaving of the calls of two callers sharing the
\* client, each call sends the request and returns the outcome it would alone.
C10_CallsIndependent ==
    /\ [](\A i \in Callers : RunsOwnMethod(i))
    /\ [][CallsWriteNothingShared]_vars

\* two calls under way at once have both returned, each with its own outcome
C10_Witness ==
    /\ Done(1) /\ Done(2)
    /\ endpoint[1] = "search" /\ endpoint[2] = "headlines"
    /\ optsMem[1] = FullOptions
    /\ optsMem[2] = [ZeroOptions EXCEPT !.Max = 5]
    /\ Class(outcome[1]) = "success"
    /\ Class(outcome[2]) = "API error"

====
